---- MODULE Spec2Model ----
(***************************************************************************)
(* A model of the swiss_uid crate: the checksum engine, the nibble codec,  *)
(* the tolerant parser (FromStr for SwissUid), the random synthesis and    *)
(* the renderings (Display, Debug, to_string_mwst, to_string_hr), as       *)
(* written in src/src/uid.rs and src/src/utils/nibble.rs.                  *)
(*                                                                         *)
(* A string is a sequence of characters; an ASCII character is a           *)
(* one-character TLA+ string, a character outside ASCII is named by its     *)
(* code point ("U+00E9").  A u8/u16/u32 is a natural number kept within    *)
(* its width.                                                              *)
(***************************************************************************)
EXTENDS Integers, Sequences, FiniteSets

VARIABLES
    phase,      \* where the caller is: idle, input, parsed, direct, synth, rendered,
                \* reparsed, formatted, reread, packed, unpacked
    input,      \* the string handed to SwissUid::new
    gen,        \* how the caller composed the input (prefix token, layout, digits)
    digits,     \* the digit buffer of a direct call or of rand (n, after the call)
    draw,       \* the random draw of rand, as drawn
    result,     \* the outcome of the last call
    orig,       \* the value that was rendered by to_string
    via,        \* how orig was constructed: "new" or "rand"
    form,       \* the form of a rendering other than to_string: debug, mwst, hr, bare
    nibbles     \* the nibbles into_iter_nibbles gave, collected

vars == <<phase, input, gen, digits, draw, result, orig, via, form, nibbles>>

---------------------------------------------------------------------------
(* Characters *)

AsciiDigitChars == <<"0", "1", "2", "3", "4", "5", "6", "7", "8", "9">>

HexDigitChars ==
    <<"0", "1", "2", "3", "4", "5", "6", "7", "8", "9", "a", "b", "c", "d", "e", "f">>

\* Characters outside ASCII that the model feeds to the parser: two letters of
\* two bytes (e with acute, small and capital), a decimal digit of two bytes
\* (ARABIC-INDIC DIGIT THREE) and a symbol of three bytes (EURO SIGN).
NonAscii2 == {"U+00E9", "U+00C9", "U+0663"}
NonAscii3 == {"U+20AC"}

\* The length of the character's UTF-8 encoding.
Utf8Len(c) == IF c \in NonAscii3 THEN 3 ELSE IF c \in NonAscii2 THEN 2 ELSE 1

\* char::is_ascii_digit
IsAsciiDigit(c) == \E i \in 1..10 : AsciiDigitChars[i] = c

\* char::to_digit(10): Some(d) as <<d>>, None as <<>>.
ToDigit(c) ==
    IF IsAsciiDigit(c)
    THEN <<(CHOOSE i \in 1..10 : AsciiDigitChars[i] = c) - 1>>
    ELSE <<>>

\* char::to_uppercase on the characters of the model.
ToUpperChar(c) ==
    CASE c = "a" -> "A" [] c = "b" -> "B" [] c = "c" -> "C" [] c = "d" -> "D"
      [] c = "e" -> "E" [] c = "h" -> "H" [] c = "m" -> "M" [] c = "U+00E9" -> "U+00C9"
      [] OTHER -> c

\* str::to_uppercase
ToUppercase(s) == [i \in 1..Len(s) |-> ToUpperChar(s[i])]

RECURSIVE ByteLen(_)
ByteLen(s) == IF s = <<>> THEN 0 ELSE Utf8Len(Head(s)) + ByteLen(Tail(s))

\* The number of characters of s that end at or before byte offset n.
RECURSIVE CharsWithin(_, _)
CharsWithin(s, n) ==
    IF s = <<>> \/ Utf8Len(Head(s)) > n
    THEN 0
    ELSE 1 + CharsWithin(Tail(s), n - Utf8Len(Head(s)))

\* s[..n] on a str: the bytes up to offset n.  Rust panics when n is past the
\* end or is not a character boundary.
SlicePanics(s, n) == ByteLen(SubSeq(s, 1, CharsWithin(s, n))) # n

SliceTo(s, n) == SubSeq(s, 1, CharsWithin(s, n))

---------------------------------------------------------------------------
(* Fixed-width arithmetic *)

U8Max == 255
U16Mod == 65536

\* A u32 is kept as its two 16-bit halves' worth: n fits when its high half
\* does, and wraps to its low 32 bits otherwise.
FitsU32(n) == n \div U16Mod < U16Mod
WrapU32(n) == (n % U16Mod) + U16Mod * ((n \div U16Mod) % U16Mod)

RECURSIVE BitOr(_, _)
BitOr(x, y) ==
    IF x = 0 THEN y
    ELSE IF y = 0 THEN x
    ELSE (IF x % 2 = 1 \/ y % 2 = 1 THEN 1 ELSE 0) + 2 * BitOr(x \div 2, y \div 2)

---------------------------------------------------------------------------
(* Results *)

NoVal == [pfx |-> "none", a |-> 0, b |-> 0, p |-> 0]

Ok(v) == [kind |-> "Ok", val |-> v, num |-> 0, msg |-> <<>>]
OkNum(n) == [kind |-> "Ok", val |-> NoVal, num |-> n, msg |-> <<>>]
Err(k, m) == [kind |-> k, val |-> NoVal, num |-> 0, msg |-> m]
Panic == [kind |-> "Panic", val |-> NoVal, num |-> 0, msg |-> <<>>]
NoResult == [kind |-> "None", val |-> NoVal, num |-> 0, msg |-> <<>>]

\* u8::to_string, u16::to_string: decimal, no padding.
RECURSIVE DecString(_)
DecString(n) ==
    IF n < 10 THEN <<AsciiDigitChars[n + 1]>>
    ELSE DecString(n \div 10) \o <<AsciiDigitChars[(n % 10) + 1]>>

---------------------------------------------------------------------------
(* Checksum engine: src/src/uid.rs *)

\* The factors with the last two exchanged.
DIGIT_FACTORS_swapped == <<5, 4, 3, 2, 7, 6, 4, 5>>

\* Factors ten times as large: a product with the digit 9 no longer fits a u8.
DIGIT_FACTORS_wide == <<50, 40, 30, 20, 70, 60, 50, 40>>

DIGIT_FACTORS == <<5, 4, 3, 2, 7, 6, 5, 4>>

NUM_CHARS_PFX == 3
NUM_CHARS_DIGITS == 8

\* v.0 * v.1 on u8.
ProductOverflows(main_digits) ==
    \E i \in 1..Len(main_digits) : DIGIT_FACTORS[i] * main_digits[i] > U8Max

\* The products, each a u8 widened to u32 (wrapped, as a build without overflow
\* checks leaves it).
Products(main_digits) ==
    [i \in 1..Len(main_digits) |-> (DIGIT_FACTORS[i] * main_digits[i]) % (U8Max + 1)]

RECURSIVE SumSeq(_)
SumSeq(s) == IF s = <<>> THEN 0 ELSE Head(s) + SumSeq(Tail(s))

\* calculate_checkdigit; checks is the build's overflow-checks setting.
calculate_checkdigit(main_digits, checks) ==
    IF Len(main_digits) # Len(DIGIT_FACTORS)
    THEN Err("InvalidFormat", <<"UID must have 8 digits">>)
    ELSE IF checks /\ (ProductOverflows(main_digits)
                        \/ ~FitsU32(SumSeq(Products(main_digits))))
    THEN Panic
    ELSE LET checksum == WrapU32(SumSeq(Products(main_digits)))
             n == 11 - (checksum % 11)
         IN  CASE n = 11 -> OkNum(0)
               [] n = 10 -> Err("InvalidCheckDigit", DecString(10))
               [] OTHER -> OkNum(n % (U8Max + 1))

---------------------------------------------------------------------------
(* Nibble codec: src/src/utils/nibble.rs *)

\* size_of::<u16>() * 2
NibblesU16 == 4

\* FromNibbles::from_nibbles for u16: a fold of (acc << 4) | d over the first
\* four digits.
RECURSIVE FoldNibbles(_, _)
FoldNibbles(acc, ds) ==
    IF ds = <<>> THEN acc
    ELSE FoldNibbles(BitOr((acc * 16) % U16Mod, Head(ds)), Tail(ds))

from_nibbles(ds) ==
    FoldNibbles(0, SubSeq(ds, 1, IF Len(ds) < NibblesU16 THEN Len(ds) ELSE NibblesU16))

into_nibbles_num(ds) == from_nibbles(ds)

\* into_iter_nibbles without .rev(): the least significant nibble first.
into_iter_nibbles_lsb(n) ==
    [k \in 1..NibblesU16 |->
        ((n \div (2 ^ ((k - 1) * 4))) % (U8Max + 1)) % 16]

\* IntoNibbles::into_iter_nibbles for u16, collected: the most significant
\* nibble first.
into_iter_nibbles(n) ==
    [k \in 1..NibblesU16 |->
        ((n \div (2 ^ ((NibblesU16 - k) * 4))) % (U8Max + 1)) % 16]

---------------------------------------------------------------------------
(* Prefix: src/src/uid.rs *)

\* impl FromStr for UidPrefix
UidPrefix_from_str(s) ==
    LET u == ToUppercase(s)
    IN  CASE u = <<"C", "H", "E">> -> Ok([NoVal EXCEPT !.pfx = "CHE"])
          [] u = <<"A", "D", "M">> -> Ok([NoVal EXCEPT !.pfx = "ADM"])
          [] OTHER -> Err("InvalidFormat", <<"Prefix must be 'CHE' or 'ADM'">>)

\* impl fmt::Display for UidPrefix: the variant's name.
UidPrefix_fmt(pfx) ==
    IF pfx = "CHE" THEN <<"C", "H", "E">> ELSE <<"A", "D", "M">>

---------------------------------------------------------------------------
(* Parser: impl FromStr for SwissUid *)

\* .filter_map(|c| c.to_digit(10).map(|d| d as u8))
RECURSIVE FilterMapDigits(_)
FilterMapDigits(cs) ==
    IF cs = <<>> THEN <<>> ELSE ToDigit(Head(cs)) \o FilterMapDigits(Tail(cs))

\* ScanDigits without .take(9).
ScanDigits_untaken(s) ==
    FilterMapDigits(SelectSeq(SubSeq(s, NUM_CHARS_PFX + 1, Len(s)), IsAsciiDigit))

\* ScanDigits with .take(9) before the filter: the first 9 characters, not
\* the first 9 digits.
ScanDigits_takefirst(s) ==
    LET skipped == SubSeq(s, NUM_CHARS_PFX + 1, Len(s))
        taken == SubSeq(skipped, 1,
                        IF Len(skipped) < NUM_CHARS_DIGITS + 1
                        THEN Len(skipped) ELSE NUM_CHARS_DIGITS + 1)
    IN  FilterMapDigits(SelectSeq(taken, IsAsciiDigit))

\* s.chars().skip(3).filter(is_ascii_digit).take(9).filter_map(to_digit)
ScanDigits(s) ==
    LET skipped == SubSeq(s, NUM_CHARS_PFX + 1, Len(s))
        kept == SelectSeq(skipped, IsAsciiDigit)
        taken == SubSeq(kept, 1,
                        IF Len(kept) < NUM_CHARS_DIGITS + 1
                        THEN Len(kept) ELSE NUM_CHARS_DIGITS + 1)
    IN  FilterMapDigits(taken)

\* The leading-zero check left out.
LeadingZero_off(ds) == FALSE

\* if digits[0] == 0
LeadingZero(ds) == ds[1] = 0

\* Assemble with the second word packed from digits[3..7].
Assemble_shifted(pfx, ds, p) ==
    [pfx |-> pfx,
     a |-> into_nibbles_num(SubSeq(ds, 1, 4)),
     b |-> into_nibbles_num(SubSeq(ds, 4, 7)),
     p |-> p % U16Mod]

\* The Ok arm of from_str's and_then closure.
Assemble(pfx, ds, p) ==
    [pfx |-> pfx,
     a |-> into_nibbles_num(SubSeq(ds, 1, 4)),
     b |-> into_nibbles_num(SubSeq(ds, 5, 8)),
     p |-> p % U16Mod]

MismatchMessage(p_calculated) ==
    <<"Calculated check digit is [">> \o DecString(p_calculated) \o <<"]">>

from_str(s, checks) ==
    IF SlicePanics(s, NUM_CHARS_PFX) THEN Panic
    ELSE
    LET pfx == UidPrefix_from_str(SliceTo(s, NUM_CHARS_PFX))
        ds == ScanDigits(s)
    IN  IF pfx.kind # "Ok" THEN pfx
        ELSE IF Len(ds) # NUM_CHARS_DIGITS + 1
        THEN Err("InvalidFormat", <<"UID must have 9 digits">>)
        ELSE IF LeadingZero(ds)
        THEN Err("LeadingZeroNotAllowed", <<>>)
        ELSE
        LET p == ds[NUM_CHARS_DIGITS + 1]
            calc == calculate_checkdigit(SubSeq(ds, 1, NUM_CHARS_DIGITS), checks)
        IN  IF calc.kind # "Ok" THEN calc
            ELSE IF calc.num = p
            THEN Ok(Assemble(pfx.val.pfx, ds, p))
            ELSE Err("MismatchedCheckDigit", MismatchMessage(calc.num))

\* SwissUid::new
new(uid, checks) == from_str(uid, checks)

---------------------------------------------------------------------------
(* Random synthesis: SwissUid::rand, after the draw *)

\* Perturb that always decrements.
Perturb_down(n) == [n EXCEPT ![1] = (n[1] + U8Max) % (U8Max + 1)]

\* The or_else closure's change of n.
Perturb(n) ==
    IF n[1] <= 1
    THEN [n EXCEPT ![1] = (n[1] + 1) % (U8Max + 1)]
    ELSE [n EXCEPT ![1] = n[1] - 1]

\* A buffer the or_else closure leaves as drawn.
rand_buffer_kept(n, checks) == n

\* The digit buffer n when rand returns.
rand_buffer(n, checks) ==
    IF calculate_checkdigit(n, checks).kind \in {"Ok", "Panic"} THEN n ELSE Perturb(n)

rand(n, checks) ==
    LET first == calculate_checkdigit(n, checks)
        n2 == rand_buffer(n, checks)
        p == IF first.kind \in {"Ok", "Panic"}
             THEN first
             ELSE calculate_checkdigit(n2, checks)
    IN  IF p.kind # "Ok" THEN p
        ELSE Ok(Assemble("CHE", n2, p.num))

---------------------------------------------------------------------------
(* Rendering: impl fmt::Display for SwissUid *)

\* {:x} with a minimum width and zero padding ({:03x}, {:02x}).
RECURSIVE HexDigits(_)
HexDigits(n) ==
    IF n < 16 THEN <<HexDigitChars[n + 1]>>
    ELSE HexDigits(n \div 16) \o <<HexDigitChars[(n % 16) + 1]>>

\* No padding: {:x} where {:03x} or {:02x} was meant.
PadZero_none(s, width) == s

RECURSIVE PadZero(_, _)
PadZero(s, width) == IF Len(s) >= width THEN s ELSE PadZero(<<"0">> \o s, width)

LowerHex(n, width) == PadZero(HexDigits(n), width)

\* Display with the third group's first two digits written {:x}, unpadded.
Display_unpadded(v) ==
    LET a012 == v.a \div 16
        a3 == v.a % 16
        b01 == (v.b - (v.b % 256)) \div 256
        b23 == v.b % 256
    IN  UidPrefix_fmt(v.pfx) \o <<"-">> \o LowerHex(a012, 3) \o <<".">>
        \o LowerHex(a3, 1) \o LowerHex(b01, 1) \o <<".">>
        \o LowerHex(b23, 2) \o DecString(v.p)

Display(v) ==
    LET a012 == v.a \div 16
        a3 == v.a % 16
        b01 == (v.b - (v.b % 256)) \div 256
        b23 == v.b % 256
    IN  UidPrefix_fmt(v.pfx) \o <<"-">> \o LowerHex(a012, 3) \o <<".">>
        \o LowerHex(a3, 1) \o LowerHex(b01, 2) \o <<".">>
        \o LowerHex(b23, 2) \o DecString(v.p)

to_string(v) == Display(v)

\* impl fmt::Debug for SwissUid: format!("{:?}", v)
Debug(v) ==
    LET a012 == v.a \div 16
        a3 == v.a % 16
        b01 == (v.b - (v.b % 256)) \div 256
        b23 == v.b % 256
    IN  UidPrefix_fmt(v.pfx) \o <<"-">> \o LowerHex(a012, 3) \o <<".">>
        \o LowerHex(a3, 1) \o LowerHex(b01, 2) \o <<".">>
        \o LowerHex(b23, 2) \o <<"[">> \o DecString(v.p) \o <<"]">>

\* format!("{} MWST", self)
to_string_mwst(v) == Display(v) \o <<" ", "M", "W", "S", "T">>

\* format!("{} HR", self)
to_string_hr(v) == Display(v) \o <<" ", "H", "R">>

---------------------------------------------------------------------------
(* The inputs the callers pass *)

\* Bounds of the model.
MaxEdits == 1
MaxDigitCount == 11

DigitChar(d) == AsciiDigitChars[d + 1]

\* Payloads the others are derived from: a valid one with check digit 1, two
\* whose checksum is the degenerate 10 (one with a leading zero), all nines.
SeedPayloads ==
    {<<1, 0, 9, 3, 2, 2, 5, 5>>, <<0, 0, 0, 0, 0, 2, 0, 0>>,
     <<1, 0, 0, 0, 0, 0, 8, 0>>, <<9, 9, 9, 9, 9, 9, 9, 9>>}

RECURSIVE Edited(_, _)
Edited(S, k) ==
    IF k = 0 THEN S
    ELSE Edited(S \cup {[n EXCEPT ![i] = d] : n \in S, i \in 1..NUM_CHARS_DIGITS, d \in 0..9},
                k - 1)

\* Every payload within MaxEdits digit changes of a seed.
Payloads == Edited(SeedPayloads, MaxEdits)

\* The draws of rand: rng.gen_range(1..10) first, rng.gen_range(0..10) after.
Draws == {n \in Payloads : n[1] >= 1}

\* Nine-digit lists cut or cyclically extended to any length up to MaxDigitCount.
SeedDigits ==
    {<<1, 0, 9, 3, 2, 2, 5, 5, 1>>, <<1, 0, 9, 3, 2, 2, 5, 5, 2>>,
     <<0, 0, 0, 0, 0, 2, 0, 0, 0>>, <<1, 0, 0, 0, 0, 0, 8, 0, 4>>,
     <<0, 1, 0, 3, 2, 2, 5, 5, 7>>, <<1, 0, 0, 0, 0, 2, 0, 0, 5>>}

DigitLists ==
    {[i \in 1..len |-> seed[((i - 1) % 9) + 1]] : seed \in SeedDigits, len \in 0..MaxDigitCount}

PrefixTokens ==
    {<<"C", "H", "E">>, <<"A", "D", "M">>, <<"c", "h", "e">>, <<"a", "d", "m">>,
     <<"C", "h", "E">>, <<"A", "B", "C">>, <<"C", "H">>, <<"C">>, <<>>,
     <<"C", "H", "U+00E9">>, <<"U+00E9", "C">>, <<"U+00E9">>, <<"U+20AC">>,
     <<"C", "H", "E", "U+00E9">>}

Layouts == {"canon", "bare", "spaced", "mwst", "hr", "exotic"}

Lead(layout) ==
    CASE layout \in {"canon", "mwst", "hr"} -> <<"-">>
      [] layout = "spaced" -> <<" ">>
      [] layout = "exotic" -> <<"U+20AC">>
      [] OTHER -> <<>>

Group(layout) ==
    CASE layout \in {"canon", "mwst", "hr"} -> <<".">>
      [] layout = "spaced" -> <<" ">>
      [] layout = "exotic" -> <<"U+0663", "U+00E9">>
      [] OTHER -> <<>>

Trail(layout) ==
    CASE layout = "mwst" -> <<" ", "M", "W", "S", "T">>
      [] layout = "hr" -> <<" ", "H", "R">>
      [] layout = "exotic" -> <<"U+00E9">>
      [] OTHER -> <<>>

RECURSIVE Grouped(_, _, _)
Grouped(layout, ds, i) ==
    IF i > Len(ds) THEN <<>>
    ELSE (IF i \in {4, 7} THEN Group(layout) ELSE <<>>)
         \o <<DigitChar(ds[i])>> \o Grouped(layout, ds, i + 1)

\* The text the caller writes: the prefix token, the separators of the layout
\* around the digits, the layout's suffix.
Compose(g) == g.pfx \o Lead(g.layout) \o Grouped(g.layout, g.ds, 1) \o Trail(g.layout)

NoGen == [pfx |-> <<>>, layout |-> "none", ds |-> <<>>]

\* Canonical texts over every payload and declared digit, and every prefix
\* token and layout over the digit lists.
Gens ==
    {[pfx |-> <<"C", "H", "E">>, layout |-> "canon", ds |-> Append(n, c)] :
        n \in Payloads, c \in 0..9}
    \cup {[pfx |-> t, layout |-> l, ds |-> ds] :
        t \in PrefixTokens, l \in Layouts, ds \in DigitLists}

\* Arguments of a direct call of calculate_checkdigit: digit sequences, a slice
\* of the wrong length, bytes that are no digits.
DirectArgs ==
    Payloads \cup {<<>>, <<1, 0, 9, 3, 2, 2, 5>>, <<1, 0, 9, 3, 2, 2, 5, 5, 1>>,
                   <<255, 255, 255, 255, 255, 255, 255, 255>>,
                   <<1, 0, 9, 3, 37, 2, 5, 5>>}

\* overflow-checks of the build: on (debug profile) or off (release profile).
OverflowChecks == BOOLEAN

---------------------------------------------------------------------------
(* The state machine: a caller and the calls it makes *)

Init ==
    /\ gen \in Gens \cup {NoGen}
    /\ phase = IF gen = NoGen THEN "idle" ELSE "input"
    /\ input = Compose(gen)
    /\ digits = <<>>
    /\ draw = <<>>
    /\ result = NoResult
    /\ orig = NoVal
    /\ via = "none"
    /\ form = "none"
    /\ nibbles = <<>>

\* SwissUid::new(input), on the caller's text or on a rendering.
New ==
    /\ phase \in {"input", "rendered", "formatted"}
    /\ \E checks \in OverflowChecks : result' = new(input, checks)
    /\ phase' = CASE phase = "input" -> "parsed"
                  [] phase = "rendered" -> "reparsed"
                  [] OTHER -> "reread"
    /\ UNCHANGED <<input, gen, digits, draw, orig, via, form, nibbles>>

\* SwissUid::rand(), for one draw of the random source.
Rand ==
    /\ phase = "idle"
    /\ \E n \in Draws, checks \in OverflowChecks :
          /\ draw' = n
          /\ digits' = rand_buffer(n, checks)
          /\ result' = rand(n, checks)
    /\ phase' = "synth"
    /\ UNCHANGED <<input, gen, orig, via, form, nibbles>>

\* calculate_checkdigit(&digits), called directly.
Checkdigit ==
    /\ phase = "idle"
    /\ \E n \in DirectArgs, checks \in OverflowChecks :
          /\ digits' = n
          /\ result' = calculate_checkdigit(n, checks)
    /\ phase' = "direct"
    /\ UNCHANGED <<input, gen, draw, orig, via, form, nibbles>>

\* v.to_string() on the value a successful new or rand returned.
Render ==
    /\ phase \in {"parsed", "synth"}
    /\ result.kind = "Ok"
    /\ input' = to_string(result.val)
    /\ orig' = result.val
    /\ via' = IF phase = "parsed" THEN "new" ELSE "rand"
    /\ phase' = "rendered"
    /\ UNCHANGED <<gen, digits, draw, result, form, nibbles>>

\* A rendering of the value a successful new or rand returned, in the form f.
Format(f, text) ==
    /\ phase \in {"parsed", "synth"}
    /\ result.kind = "Ok"
    /\ input' = text
    /\ form' = f
    /\ orig' = result.val
    /\ via' = IF phase = "parsed" THEN "new" ELSE "rand"
    /\ phase' = "formatted"
    /\ UNCHANGED <<gen, digits, draw, result, nibbles>>

\* format!("{:?}", v)
RenderDebug == Format("debug", Debug(result.val))

\* v.to_string_mwst()
RenderMwst == Format("mwst", to_string_mwst(result.val))

\* v.to_string_hr()
RenderHr == Format("hr", to_string_hr(result.val))

\* The caller writes the plain rendering without its punctuation
\* ("CHE-109.322.551" as "CHE109322551").
Unpunctuate ==
    /\ phase = "rendered"
    /\ input' = SelectSeq(input, LAMBDA c : c \notin {"-", "."})
    /\ form' = "bare"
    /\ phase' = "formatted"
    /\ UNCHANGED <<gen, digits, draw, result, orig, via, nibbles>>

Next ==
    \/ New \/ Rand \/ Checkdigit
    \/ Render \/ RenderDebug \/ RenderMwst \/ RenderHr \/ Unpunctuate

Spec == Init /\ [][Next]_vars

---------------------------------------------------------------------------
(* The nibble codec on its own: src/src/utils/nibble.rs *)

\* The largest value of a 4-bit digit (the mask 0x0f).
NibbleMax == 15

\* Arguments of into_nibbles_num: every slice of four nibbles, and slices
\* that are shorter, longer, or hold a byte wider than a nibble.
NibbleArgs ==
    [1..NibblesU16 -> 0..NibbleMax]
        \cup { <<>>, <<1, 2, 3>>, <<1, 2, 3, 4, 5>>, <<1, 16, 0, 0>>,
               <<0, 0, 9, 37>>, <<U8Max, U8Max, U8Max, U8Max>> }

CodecInit ==
    /\ phase = "slice"
    /\ digits \in NibbleArgs
    /\ gen = NoGen
    /\ input = <<>>
    /\ draw = <<>>
    /\ result = NoResult
    /\ orig = NoVal
    /\ via = "none"
    /\ form = "none"
    /\ nibbles = <<>>

\* let n: u16 = digits.into_nibbles_num();
Pack ==
    /\ phase = "slice"
    /\ result' = OkNum(into_nibbles_num(digits))
    /\ phase' = "packed"
    /\ UNCHANGED <<input, gen, digits, draw, orig, via, form, nibbles>>

\* n.into_iter_nibbles().collect()
Unpack ==
    /\ phase = "packed"
    /\ nibbles' = into_iter_nibbles(result.num)
    /\ phase' = "unpacked"
    /\ UNCHANGED <<input, gen, digits, draw, result, orig, via, form>>

CodecNext == Pack \/ Unpack

CodecSpec == CodecInit /\ [][CodecNext]_vars

---------------------------------------------------------------------------
(* What the claims speak of *)

\* The first three characters of the input, folded to upper case, are a
\* recognized prefix.
RecognizedPrefix ==
    /\ Len(input) >= 3
    /\ ToUppercase(SubSeq(input, 1, 3)) \in {<<"C", "H", "E">>, <<"A", "D", "M">>}

\* The reference checksum: the weighted sum and 11 - (sum mod 11).
RefSum(d) ==
    5 * d[1] + 4 * d[2] + 3 * d[3] + 2 * d[4] + 7 * d[5] + 6 * d[6] + 5 * d[7] + 4 * d[8]

RefCheck(d) == 11 - (RefSum(d) % 11)

IsPayload(d) == Len(d) = 8 /\ \A i \in 1..8 : d[i] \in 0..9

\* The payload and the declared digit the caller wrote.
GenPayload == SubSeq(gen.ds, 1, 8)
GenDeclared == gen.ds[9]

\* The 8 payload digits of a value, unpacked from its fields a and b.
Unpacked(v) == into_iter_nibbles(v.a) \o into_iter_nibbles(v.b)

\* A call of new or rand has returned Ok.
Constructed == phase \in {"parsed", "reparsed", "synth"} /\ result.kind = "Ok"

---------------------------------------------------------------------------
(* C1: every value that new, from_str or rand returns as Ok stores a check  *)
(* digit p in 0..9 that equals calculate_checkdigit of the 8 payload digits *)
(* unpacked from its fields a and b.                                        *)
C1_ConstructionInvariant ==
    Constructed =>
        /\ result.val.p \in 0..9
        /\ \A checks \in OverflowChecks :
              calculate_checkdigit(Unpacked(result.val), checks) = OkNum(result.val.p)

\* rand has returned a value after perturbing its first digit.
C1_Witness == phase = "synth" /\ result.kind = "Ok" /\ digits # draw

(* C2: for every sequence of 8 digits in 0..9, a direct call of             *)
(* calculate_checkdigit returns Ok(0) when 11 - (sum mod 11) is 11,         *)
(* Err(InvalidCheckDigit) when it is 10 and Ok(r) for r in 1..9; it never   *)
(* returns Ok(10).                                                          *)
C2_ReferenceChecksum ==
    (phase = "direct" /\ IsPayload(digits)) =>
        LET r == RefCheck(digits)
        IN  /\ r = 11 => result = OkNum(0)
            /\ r = 10 => result.kind = "InvalidCheckDigit"
            /\ r \in 1..9 => result = OkNum(r)
            /\ result # OkNum(10)

\* A direct call on a payload whose checksum is the degenerate 10.
C2_Witness ==
    phase = "direct" /\ IsPayload(digits) /\ RefCheck(digits) = 10
        /\ result.kind = "InvalidCheckDigit"

(* C3: SwissUid::new never panics: for every input, the empty string,      *)
(* inputs shorter than the prefix and inputs with non-ASCII characters      *)
(* included, it returns Ok or Err.                                          *)
C3_NeverPanics ==
    phase \in {"parsed", "reparsed"} => result.kind # "Panic"

(* C4: every input with a recognized prefix and 9 digits whose payload      *)
(* checksums to the degenerate 10 fails with InvalidCheckDigit, whatever    *)
(* the declared 9th digit is.                                               *)
C4_DegenerateRejected ==
    (phase = "parsed" /\ RecognizedPrefix /\ Len(gen.ds) = 9
        /\ RefCheck(GenPayload) = 10)
    => result.kind = "InvalidCheckDigit"

Carries(msg, d) == \E i \in 1..Len(msg) : msg[i] = DigitChar(d)

RefDigit(d) == IF RefCheck(d) = 11 THEN 0 ELSE RefCheck(d)

(* C6: every input with a recognized prefix and 9 digits whose payload      *)
(* checksums to a valid digit c other than the declared digit p fails with  *)
(* MismatchedCheckDigit, and the error carries both c and p.                *)
C6_MismatchReported ==
    (phase = "parsed" /\ RecognizedPrefix /\ Len(gen.ds) = 9
        /\ RefCheck(GenPayload) # 10 /\ RefDigit(GenPayload) # GenDeclared)
    => /\ result.kind = "MismatchedCheckDigit"
       /\ Carries(result.msg, RefDigit(GenPayload))
       /\ Carries(result.msg, GenDeclared)

(* C7: parsing the plain rendering of a successfully parsed value gives     *)
(* back the same value: prefix, packed words a and b, check digit.          *)
C7_RoundTrip ==
    (phase = "reparsed" /\ via = "new") => result = Ok(orig)

\* A round trip of a value whose second word starts with a zero digit.
C7_Witness ==
    phase = "reparsed" /\ via = "new" /\ result.kind = "Ok" /\ orig.b < 4096

\* The letters among the characters of the model.
Letters ==
    {"A", "B", "C", "D", "E", "H", "M", "R", "S", "T", "W",
     "a", "b", "c", "d", "e", "h", "m", "U+00E9", "U+00C9"}

\* The input starts with a 3-letter token other than the two prefixes.
OtherThreeLetterToken ==
    Len(input) >= 3 /\ (\A i \in 1..3 : input[i] \in Letters) /\ ~RecognizedPrefix

\* The input starts with a 2-letter prefix.
TwoLetterPrefix ==
    /\ Len(input) >= 2 /\ input[1] \in Letters /\ input[2] \in Letters
    /\ (Len(input) >= 3 => input[3] \notin Letters)

\* The input starts with a digit: it has no prefix.
StartsWithDigit == Len(input) >= 1 /\ IsAsciiDigit(input[1])

(* C8: new accepts an input only if its first three characters, folded to   *)
(* upper case, are CHE or ADM, and the value then holds that tag; every     *)
(* other 3-letter token, a 2-letter prefix and an input that starts with    *)
(* digits and has no prefix are rejected with InvalidFormat.                *)
C8_PrefixClosure ==
    phase = "parsed" =>
        /\ result.kind = "Ok" =>
              /\ RecognizedPrefix
              /\ UidPrefix_fmt(result.val.pfx) = ToUppercase(SubSeq(input, 1, 3))
        /\ (OtherThreeLetterToken \/ TwoLetterPrefix \/ StartsWithDigit)
              => result.kind = "InvalidFormat"

(* C9, as claimed: with a recognized prefix, fewer or more than 9 digits    *)
(* after it fail with InvalidFormat, and only a text with exactly 9 digits  *)
(* is accepted.                                                             *)
C9_ExactlyNineDigits ==
    (phase = "parsed" /\ RecognizedPrefix) =>
        /\ Len(gen.ds) # 9 => result.kind = "InvalidFormat"
        /\ result.kind = "Ok" => Len(gen.ds) = 9

(* C9, amended: with a recognized prefix, fewer than 9 ASCII digits after   *)
(* it fail with InvalidFormat; digits after the 9th are ignored, the text   *)
(* is treated as the one with its first 9 digits; only a text with at       *)
(* least 9 digits is accepted.                                              *)
C9_AtLeastNineDigits ==
    (phase = "parsed" /\ RecognizedPrefix) =>
        /\ Len(gen.ds) < 9 => result = Err("InvalidFormat", <<"UID must have 9 digits">>)
        /\ Len(gen.ds) > 9 =>
              \A checks \in OverflowChecks :
                  result = new(Compose([gen EXCEPT !.ds = SubSeq(gen.ds, 1, 9)]), checks)
        /\ result.kind = "Ok" => Len(gen.ds) >= 9

\* A text with more than 9 digits was accepted.
C9_Witness ==
    phase = "parsed" /\ RecognizedPrefix /\ Len(gen.ds) > 9 /\ result.kind = "Ok"

(* C10: for every draw, rand returns Ok with prefix CHE, and parsing the    *)
(* plain rendering of the synthesized value succeeds with an equal value.   *)
C10_SynthesisValidity ==
    /\ phase = "synth" => (result.kind = "Ok" /\ result.val.pfx = "CHE")
    /\ (phase = "reparsed" /\ via = "rand") => result = Ok(orig)

\* The round trip of a value rand made after perturbing its first digit.
C10_Witness ==
    phase = "reparsed" /\ via = "rand" /\ result.kind = "Ok" /\ digits # draw

\* The prefix and the 9 digits the rendered value was constructed from: the
\* caller's text for new, the digit buffer and its checksum for rand.
SourcePfx ==
    IF via = "new" THEN ToUppercase(SubSeq(gen.pfx, 1, 3)) ELSE <<"C", "H", "E">>

SourceDigits ==
    IF via = "new" THEN SubSeq(gen.ds, 1, 9) ELSE Append(digits, RefDigit(digits))

\* "PFX-d0d1d2.d3d4d5.d6d7c"
Canonical == Compose([pfx |-> SourcePfx, layout |-> "canon", ds |-> SourceDigits])

HexLetters == {"a", "b", "c", "d", "e", "f"}

(* C11: for every constructed value with prefix PFX, payload d0..d7 and     *)
(* check digit c, Display gives exactly the 15 characters                   *)
(* "PFX-d0d1d2.d3d4d5.d6d7c" and Debug the same text with the check digit   *)
(* as "[c]"; no hexadecimal letter appears and no leading zero is dropped.  *)
C11_CanonicalRendering ==
    /\ phase = "rendered" => (input = Canonical /\ Len(input) = 15)
    /\ (phase = "formatted" /\ form = "debug") =>
          input = SubSeq(Canonical, 1, 14) \o <<"[", DigitChar(SourceDigits[9]), "]">>
    /\ phase \in {"rendered", "formatted"} =>
          \A i \in 1..Len(input) : input[i] \notin HexLetters

\* The Debug text of a parsed ADM value whose second word starts with a zero.
C11_Witness ==
    /\ phase = "formatted" /\ form = "debug" /\ via = "new"
    /\ orig.pfx = "ADM" /\ orig.b < 4096

\* The first n elements of s, or all of s.
FirstN(s, n) == SubSeq(s, 1, IF Len(s) < n THEN Len(s) ELSE n)

\* What is left of a text when everything but its first three characters and
\* the first 9 ASCII digits after them is dropped.
Essence(s) ==
    FirstN(s, 3) \o FirstN(SelectSeq(SubSeq(s, 4, Len(s)), IsAsciiDigit), 9)

(* C12: the result of new depends only on the first three characters of    *)
(* the input and the first 9 ASCII digits after them; the other characters *)
(* change nothing, so the MWST form, the HR form and the unpunctuated form  *)
(* of a valid value all parse to that value.                                *)
C12_SeparatorsIgnored ==
    /\ phase \in {"parsed", "reparsed", "reread"} =>
          \A checks \in OverflowChecks : result = new(Essence(input), checks)
    /\ (phase = "reread" /\ form \in {"mwst", "hr", "bare"}) => result = Ok(orig)

\* The MWST form of a parsed value, parsed again.
C12_Witness ==
    phase = "reread" /\ form = "mwst" /\ via = "new" /\ result.kind = "Ok"

\* Four digits, each of which fits a nibble.
FourNibbles(ds) == Len(ds) = 4 /\ \A i \in 1..4 : ds[i] \in 0..15

\* d0*4096 + d1*256 + d2*16 + d3
PlaceValue(ds) == ds[1] * 4096 + ds[2] * 256 + ds[3] * 16 + ds[4]

(* C13: four digits, each at most 15, pack into the word                   *)
(* d0*4096 + d1*256 + d2*16 + d3, and unpacking that word returns the same *)
(* four digits in the same order.                                           *)
C13_CodecRoundTrip ==
    FourNibbles(digits) =>
        /\ phase \in {"packed", "unpacked"} => result = OkNum(PlaceValue(digits))
        /\ phase = "unpacked" => nibbles = digits

\* The slice [11, 12, 13, 14] packed and unpacked again.
C13_Witness ==
    phase = "unpacked" /\ digits = <<11, 12, 13, 14>>


\* The draw with its first digit moved as the retry moves it.
Retried(n) == [n EXCEPT ![1] = IF n[1] <= 1 THEN n[1] + 1 ELSE n[1] - 1]

(* C14: when the payload rand drew checksums to the degenerate 10, the one  *)
(* change of its first digit (+1 when it is at most 1, -1 otherwise) keeps  *)
(* that digit in 1..9 and moves the weighted sum by a nonzero amount mod    *)
(* 11, so the single recomputation gives a check digit in 0..9 and rand     *)
(* returns a value made of the changed payload; any other draw is used as   *)
(* drawn.                                                                   *)
C14_SynthesisRetry ==
    phase = "synth" =>
        /\ digits = IF RefCheck(draw) = 10 THEN Retried(draw) ELSE draw
        /\ digits[1] \in 1..9
        /\ RefCheck(draw) = 10 =>
              /\ (RefSum(digits) - RefSum(draw)) % 11 # 0
              /\ RefCheck(digits) # 10
        /\ result.kind = "Ok"
        /\ result.val.p \in 0..9
        /\ result.val.p = RefDigit(digits)
        /\ Unpacked(result.val) = digits

\* A degenerate draw whose first digit is lowered by the retry.
C14_Witness ==
    phase = "synth" /\ RefCheck(draw) = 10 /\ draw[1] >= 2 /\ result.kind = "Ok"


(* C15: for every sequence of 8 digits 0..9, each product of a factor and   *)
(* its digit fits the 8 bits it is computed in, the sum of the 8 products   *)
(* fits 32 bits, and calculate_checkdigit returns a result, the same one    *)
(* with and without overflow checks.                                        *)
C15_NoOverflow ==
    /\ \A i \in 1..Len(DIGIT_FACTORS), d \in 0..9 : DIGIT_FACTORS[i] * d \in 0..U8Max
    /\ (phase = "direct" /\ IsPayload(digits)) =>
          /\ ~ProductOverflows(digits)
          /\ \A i \in 1..8 : Products(digits)[i] = DIGIT_FACTORS[i] * digits[i]
          /\ FitsU32(SumSeq(Products(digits)))
          /\ SumSeq(Products(digits)) = RefSum(digits)
          /\ result.kind \in {"Ok", "InvalidCheckDigit"}
          /\ \A checks \in OverflowChecks : calculate_checkdigit(digits, checks) = result

\* The checksum of eight nines, the largest products and the largest sum.
C15_Witness ==
    phase = "direct" /\ digits = <<9, 9, 9, 9, 9, 9, 9, 9>> /\ result.kind = "Ok"

====
